---- MODULE Spec2Model ----
(***************************************************************************)
(* Model of Cubify (src/app/page.tsx): the percentile computation          *)
(* calculateStats, the single-competitor query fetchStats of the           *)
(* CubifyAnalyzer page, and the head-to-head scoring getAllEvents /        *)
(* getBetterRank / calculatePoints of the ComparePage.                     *)
(*                                                                         *)
(* JavaScript numbers that are not integers are modelled as exact          *)
(* fractions [n, d] in lowest terms (d = 0 encodes Infinity, -Infinity and *)
(* NaN); the rounding of IEEE doubles is not modelled.                     *)
(***************************************************************************)
EXTENDS Integers, Sequences, FiniteSets, TLC

VARIABLES
    \* calculateStats called on its own (lines 106-114)
    rank, totalCompetitors, regionStats, statsPc,
    \* the labels the event card renders for one standing (lines 584-722)
    labels,
    \* ComparePage state (lines 813-814) and the tallies its render computes
    player1, player2, points, table, pointsPc,
    \* CubifyAnalyzer state (lines 100-104)
    wcaId, loading, playerInfo, eventsData, error,
    \* one invocation of fetchStats: the await it is suspended at, its locals
    \* (player, transformedPlayer, eventIds and the loop position, allEventsData,
    \* the six responses and the six totals of each iteration, the caught err),
    \* what the network did to it (a promise rejected, lookups that failed), and
    \* the leaderboard requests it has sent so far, in the order sent
    pc, player, transformedPlayer, eventIds, eventIdx, allEventsData,
    responses, eventTotals, thrown, rejected, faults, issued,
    \* the page that is mounted: "/" is CubifyAnalyzer, "/compare" is ComparePage
    route,
    \* the other ComparePage state (lines 810-815), the await compareStats is
    \* suspended at, the two invocations of fetchPlayerData it started (the await
    \* each is suspended at, its wcaId, its player and what it returned), and
    \* the err it caught
    wcaId1, wcaId2, compareLoading, compareError, comparePc, calls, compareThrown

standingVars == <<rank, totalCompetitors, regionStats, statsPc, labels>>
compareVars == <<player1, player2, points, table, pointsPc>>
pageVars == <<wcaId, loading, playerInfo, eventsData, error>>
fetchVars == <<pc, player, transformedPlayer, eventIds, eventIdx, allEventsData,
               responses, eventTotals, thrown, rejected, faults, issued>>
analyzerVars == <<pageVars, fetchVars>>
queryVars == <<wcaId1, wcaId2, compareLoading, compareError, comparePc, calls,
               compareThrown>>
vars == <<standingVars, compareVars, analyzerVars, queryVars, route>>

\* ---------------------------------------------------------------- bounds
MaxRank == 101
MaxTotal == 100
MaxWorldRank == 2
MaxFaults == 1
MaxRenderTotal == 10

\* ------------------------------------------------------- number helpers
Abs(i) == IF i < 0 THEN -i ELSE i

Sign(i) == IF i < 0 THEN -1 ELSE IF i > 0 THEN 1 ELSE 0

RECURSIVE Gcd(_, _)
Gcd(a, b) == IF b = 0 THEN a ELSE Gcd(b, a % b)

\* the number n/d; d = 0 gives Infinity (n > 0), -Infinity (n < 0), NaN (n = 0)
Rat(n, d) ==
    IF d = 0 THEN [n |-> Sign(n), d |-> 0]
    ELSE LET g == Gcd(Abs(n), Abs(d))
             s == Sign(d)
         IN  [n |-> (s * n) \div g, d |-> (s * d) \div g]

Num(i) == [n |-> i, d |-> 1]

NaN == [n |-> 0, d |-> 0]

IsNaN(x) == x.n = 0 /\ x.d = 0

IsFinite(x) == x.d # 0

\* x / y for finite x and y (division by zero gives Infinity or NaN)
NumDiv(x, y) == Rat(x.n * y.d * Sign(y.n), x.d * Abs(y.n))

NumMul(x, y) == Rat(x.n * y.n, x.d * y.d)

NumSub(x, y) ==
    IF IsNaN(x) \/ IsNaN(y) THEN NaN
    ELSE IF IsFinite(x) /\ IsFinite(y) THEN Rat(x.n * y.d - y.n * x.d, x.d * y.d)
    ELSE IF IsFinite(x) THEN [n |-> -y.n, d |-> 0]
    ELSE IF IsFinite(y) THEN x
    ELSE IF x.n = y.n THEN NaN ELSE x

\* x < y; false when either side is NaN
NumLt(x, y) ==
    IF IsNaN(x) \/ IsNaN(y) THEN FALSE
    ELSE IF ~IsFinite(x) /\ ~IsFinite(y) THEN x.n < y.n
    ELSE x.n * y.d < y.n * x.d

NumLeq(x, y) == ~IsNaN(x) /\ ~IsNaN(y) /\ ~NumLt(y, x)

MathMin(x, y) == IF IsNaN(x) \/ IsNaN(y) THEN NaN ELSE IF NumLt(y, x) THEN y ELSE x

MathMax(x, y) == IF IsNaN(x) \/ IsNaN(y) THEN NaN ELSE IF NumLt(x, y) THEN y ELSE x

\* --------------------------------------------------------- calculateStats
calculateStatsNoOffset(r, total) ==
    LET percentDownList == NumMul(NumDiv(Num(r), Num(total)), Num(100))
        percentile == NumMul(NumSub(Num(1), NumDiv(Num(r), Num(total))), Num(100))
    IN  [totalCompetitors |-> total,
         percentile |-> MathMax(Num(0), MathMin(Num(100), percentile)),
         percentDownList |-> percentDownList]

calculateStatsUnclamped(r, total) ==
    LET percentDownList == NumMul(NumDiv(Num(r), Num(total)), Num(100))
        percentile == NumMul(NumSub(Num(1), NumDiv(Num(r - 1), Num(total))), Num(100))
    IN  [totalCompetitors |-> total,
         percentile |-> percentile,
         percentDownList |-> percentDownList]

calculateStatsInverted(r, total) ==
    LET percentDownList == NumMul(NumDiv(Num(r), Num(total)), Num(100))
        percentile == NumMul(NumDiv(Num(r - 1), Num(total)), Num(100))
    IN  [totalCompetitors |-> total,
         percentile |-> MathMax(Num(0), MathMin(Num(100), percentile)),
         percentDownList |-> percentDownList]

calculateStats(r, total) ==
    LET percentDownList == NumMul(NumDiv(Num(r), Num(total)), Num(100))
        percentile == NumMul(NumSub(Num(1), NumDiv(Num(r - 1), Num(total))), Num(100))
    IN  [totalCompetitors |-> total,
         percentile |-> MathMax(Num(0), MathMin(Num(100), percentile)),
         percentDownList |-> percentDownList]

\* the literal { totalCompetitors: 0, percentile: 0, percentDownList: 0 }
ZeroStats == [totalCompetitors |-> 0, percentile |-> Num(0), percentDownList |-> Num(0)]

\* ------------------------------------------------- head-to-head scoring
\* both codes are integer-like keys, which Object.keys lists in ascending order
Events == {"333", "444"}

\* position of an event code in the order of Array.prototype.sort()
CodeOrder(e) == CASE e = "333" -> 1 [] e = "444" -> 2

RECURSIVE KeysOf(_)
KeysOf(S) ==
    IF S = {} THEN <<>>
    ELSE LET m == CHOOSE e \in S : \A f \in S : CodeOrder(e) <= CodeOrder(f)
         IN  <<m>> \o KeysOf(S \ {m})

\* Object.keys(personal_records)
ObjectKeys(records) == KeysOf(DOMAIN records)

RECURSIVE AddAll(_, _)
AddAll(events, keys) ==
    IF keys = <<>> THEN events
    ELSE AddAll(IF \E i \in 1..Len(events) : events[i] = Head(keys)
                THEN events ELSE Append(events, Head(keys)),
                Tail(keys))

RECURSIVE Insert(_, _)
Insert(sorted, e) ==
    IF sorted = <<>> THEN <<e>>
    ELSE IF CodeOrder(e) < CodeOrder(Head(sorted)) THEN <<e>> \o sorted
    ELSE <<Head(sorted)>> \o Insert(Tail(sorted), e)

RECURSIVE ArraySort(_)
ArraySort(s) == IF s = <<>> THEN <<>> ELSE Insert(ArraySort(Tail(s)), Head(s))

Null == [null |-> TRUE]

\* Array.from(events) without .sort()
getAllEventsUnsorted(p1, p2) ==
    LET e0 == <<>>
        e1 == IF p1 # Null THEN AddAll(e0, ObjectKeys(p1.personal_records)) ELSE e0
        e2 == IF p2 # Null THEN AddAll(e1, ObjectKeys(p2.personal_records)) ELSE e1
    IN  e2

getAllEvents(p1, p2) ==
    LET e0 == <<>>
        e1 == IF p1 # Null THEN AddAll(e0, ObjectKeys(p1.personal_records)) ELSE e0
        e2 == IF p2 # Null THEN AddAll(e1, ObjectKeys(p2.personal_records)) ELSE e1
    IN  ArraySort(e2)

\* a rank is falsy when it is 0; an absent rank (undefined) is modelled as 0
getBetterRankHigherWins(rank1, rank2) ==
    IF rank1 = 0 /\ rank2 = 0 THEN "tie"
    ELSE IF rank1 = 0 THEN "player2"
    ELSE IF rank2 = 0 THEN "player1"
    ELSE IF rank1 > rank2 THEN "player1" ELSE IF rank1 < rank2 THEN "player2" ELSE "tie"

getBetterRankTieToPlayer1(rank1, rank2) ==
    IF rank1 = 0 /\ rank2 = 0 THEN "tie"
    ELSE IF rank1 = 0 THEN "player2"
    ELSE IF rank2 = 0 THEN "player1"
    ELSE IF rank1 <= rank2 THEN "player1" ELSE "player2"

\* without the first line, `if (!rank1 && !rank2) return "tie"`
getBetterRankNoBothAbsent(rank1, rank2) ==
    IF rank1 = 0 THEN "player2"
    ELSE IF rank2 = 0 THEN "player1"
    ELSE IF rank1 < rank2 THEN "player1" ELSE IF rank1 > rank2 THEN "player2" ELSE "tie"

getBetterRank(rank1, rank2) ==
    IF rank1 = 0 /\ rank2 = 0 THEN "tie"
    ELSE IF rank1 = 0 THEN "player2"
    ELSE IF rank2 = 0 THEN "player1"
    ELSE IF rank1 < rank2 THEN "player1" ELSE IF rank1 > rank2 THEN "player2" ELSE "tie"

Has(record, discipline) == discipline \in DOMAIN record

B2N(b) == IF b THEN 1 ELSE 0

\* `else fairPoints2++` in place of `else if (winner === "player2")`
ComparisonPointsTieToPlayer2(event1, event2) ==
    LET singleWinner ==
            IF Has(event1, "single") /\ Has(event2, "single")
            THEN getBetterRank(event1.single.world_ranking, event2.single.world_ranking)
            ELSE "none"
        averageWinner ==
            IF Has(event1, "average") /\ Has(event2, "average")
            THEN getBetterRank(event1.average.world_ranking, event2.average.world_ranking)
            ELSE "none"
    IN  [player1 |-> B2N(singleWinner = "player1") + B2N(averageWinner = "player1"),
         player2 |-> B2N(singleWinner \in {"player2", "tie"})
                     + B2N(averageWinner \in {"player2", "tie"})]

\* the single and the average comparison of an event both players hold
\* (lines 980-992, repeated at 1007-1017)
ComparisonPoints(event1, event2) ==
    LET singleWinner ==
            IF Has(event1, "single") /\ Has(event2, "single")
            THEN getBetterRank(event1.single.world_ranking, event2.single.world_ranking)
            ELSE "none"
        averageWinner ==
            IF Has(event1, "average") /\ Has(event2, "average")
            THEN getBetterRank(event1.average.world_ranking, event2.average.world_ranking)
            ELSE "none"
    IN  [player1 |-> B2N(singleWinner = "player1") + B2N(averageWinner = "player1"),
         player2 |-> B2N(singleWinner = "player2") + B2N(averageWinner = "player2")]

\* one point for the event, whatever the number of disciplines
PresencePointsOnePerEvent(event) == 1

\* points for having results when the opponent does not (lines 999-1004)
PresencePoints(event) == B2N(Has(event, "single")) + B2N(Has(event, "average"))

\* the fair branch taken for every event, an absent record counting as empty
FairStepAnyEvent(acc, p1, p2, eventId) ==
    LET has1 == eventId \in DOMAIN p1.personal_records
        has2 == eventId \in DOMAIN p2.personal_records
        won1 == IF has1 THEN PresencePoints(p1.personal_records[eventId]) ELSE 0
        won2 == IF has2 THEN PresencePoints(p2.personal_records[eventId]) ELSE 0
        cmp == IF has1 /\ has2
               THEN ComparisonPoints(p1.personal_records[eventId], p2.personal_records[eventId])
               ELSE [player1 |-> IF has1 THEN won1 ELSE 0, player2 |-> IF has2 THEN won2 ELSE 0]
    IN  [acc EXCEPT !.fairPoints1 = @ + cmp.player1,
                    !.fairPoints2 = @ + cmp.player2,
                    !.fairEvents = Append(@, eventId)]

\* fair comparison, only events where both have results (lines 976-993)
FairStep(acc, p1, p2, eventId) ==
    LET has1 == eventId \in DOMAIN p1.personal_records
        has2 == eventId \in DOMAIN p2.personal_records
    IN  IF has1 /\ has2
        THEN LET cmp == ComparisonPoints(p1.personal_records[eventId],
                                         p2.personal_records[eventId])
             IN  [acc EXCEPT !.fairPoints1 = @ + cmp.player1,
                             !.fairPoints2 = @ + cmp.player2,
                             !.fairEvents = Append(@, eventId)]
        ELSE acc

\* unfair comparison, all events from both players (lines 995-1018)
UnfairStep(acc, p1, p2, eventId) ==
    LET has1 == eventId \in DOMAIN p1.personal_records
        has2 == eventId \in DOMAIN p2.personal_records
        pushed == [acc EXCEPT !.unfairEvents = Append(@, eventId)]
    IN  IF has1 /\ ~has2
        THEN [pushed EXCEPT !.unfairPoints1 = @ + PresencePoints(p1.personal_records[eventId])]
        ELSE IF ~has1 /\ has2
        THEN [pushed EXCEPT !.unfairPoints2 = @ + PresencePoints(p2.personal_records[eventId])]
        ELSE IF has1 /\ has2
        THEN LET cmp == ComparisonPoints(p1.personal_records[eventId],
                                         p2.personal_records[eventId])
             IN  [pushed EXCEPT !.unfairPoints1 = @ + cmp.player1,
                                !.unfairPoints2 = @ + cmp.player2]
        ELSE pushed

\* allEvents.forEach (lines 972-1019)
RECURSIVE PointsLoop(_, _, _, _)
PointsLoop(acc, p1, p2, events) ==
    IF events = <<>> THEN acc
    ELSE PointsLoop(UnfairStep(FairStep(acc, p1, p2, Head(events)), p1, p2, Head(events)),
                    p1, p2, Tail(events))

ZeroPoints ==
    [fair |-> [player1 |-> 0, player2 |-> 0, events |-> <<>>],
     unfair |-> [player1 |-> 0, player2 |-> 0, events |-> <<>>]]

calculatePoints(p1, p2) ==
    IF p1 = Null \/ p2 = Null THEN ZeroPoints
    ELSE LET acc == PointsLoop([fairPoints1 |-> 0, fairPoints2 |-> 0,
                                unfairPoints1 |-> 0, unfairPoints2 |-> 0,
                                fairEvents |-> <<>>, unfairEvents |-> <<>>],
                               p1, p2, getAllEvents(p1, p2))
         IN  [fair |-> [player1 |-> acc.fairPoints1, player2 |-> acc.fairPoints2,
                        events |-> acc.fairEvents],
              unfair |-> [player1 |-> acc.unfairPoints1, player2 |-> acc.unfairPoints2,
                          events |-> acc.unfairEvents]]

\* event1?.single?.world_ranking: 0 stands for undefined
RankOf(records, eventId, discipline) ==
    IF eventId \in DOMAIN records /\ Has(records[eventId], discipline)
    THEN records[eventId][discipline].world_ranking
    ELSE 0

\* the rows one event contributes to the head-to-head table (lines 1349-1464)
EventRows(p1, p2, eventId) ==
    LET r1 == p1.personal_records
        r2 == p2.personal_records
        shown(d) == \/ (eventId \in DOMAIN r1 /\ Has(r1[eventId], d))
                    \/ (eventId \in DOMAIN r2 /\ Has(r2[eventId], d))
        row(d) == [eventId |-> eventId, discipline |-> d,
                   rank1 |-> RankOf(r1, eventId, d), rank2 |-> RankOf(r2, eventId, d),
                   winner |-> getBetterRank(RankOf(r1, eventId, d), RankOf(r2, eventId, d))]
    IN  (IF shown("single") THEN <<row("single")>> ELSE <<>>)
        \o (IF shown("average") THEN <<row("average")>> ELSE <<>>)

RECURSIVE TableRows(_, _, _)
TableRows(p1, p2, events) ==
    IF events = <<>> THEN <<>>
    ELSE EventRows(p1, p2, Head(events)) \o TableRows(p1, p2, Tail(events))

\* ------------------------------------------------------- CubifyAnalyzer
CONTINENT_CODES ==
    ("Africa" :> "africa") @@ ("Asia" :> "asia") @@ ("Europe" :> "europe")
    @@ ("North America" :> "north-america") @@ ("Oceania" :> "oceania")
    @@ ("South America" :> "south-america")

\* String.prototype.toUpperCase / toLowerCase / trim on the strings in use
ToUpperCase(str) ==
    CASE str = "us" -> "US" [] str = "xx" -> "XX" [] str = "2019wanj01" -> "2019WANJ01"
      [] str = "2012park03" -> "2012PARK03" [] str = "ca" -> "CA"
      [] OTHER -> str

ToLowerCase(str) ==
    CASE str = "US" -> "us" [] str = "XX" -> "xx" [] str = "2019WANJ01" -> "2019wanj01"
      [] str = "2012PARK03" -> "2012park03" [] str = "CA" -> "ca"
      [] OTHER -> str

Trim(str) == IF str = " " THEN "" ELSE str

\* a || b on strings: the empty string (and an absent field, modelled as "") is falsy
OrElse(a, b) == IF a # "" THEN a ELSE b

\* the six lookups of one event, in the order of the Promise.all (lines 231-248)
Slots == {"worldSingle", "worldAverage", "continentalSingle", "continentalAverage",
          "nationalSingle", "nationalAverage"}

SlotType(slot) ==
    IF slot \in {"worldSingle", "continentalSingle", "nationalSingle"}
    THEN "single" ELSE "average"

\* the scope in the URL of a lookup (lines 232-247)
SlotScope(slot, continentCode, countryIso) ==
    CASE slot \in {"worldSingle", "worldAverage"} -> "world"
      [] slot \in {"continentalSingle", "continentalAverage"} -> continentCode
      [] OTHER -> ToUpperCase(countryIso)

\* the order of the six fetches in the Promise.all (lines 230-249)
SlotOrder == <<"worldSingle", "worldAverage", "continentalSingle", "continentalAverage",
               "nationalSingle", "nationalAverage">>

\* lines 161 and 164
CountryIsoOf(raw) == OrElse(raw.country, OrElse(raw.countryIso2, "XX"))

\* CONTINENT_CODES[player.continent] without `|| "world"`; "" stands for undefined
ContinentCodeOfNoFallback(raw) ==
    IF raw.continent \in DOMAIN CONTINENT_CODES THEN CONTINENT_CODES[raw.continent]
    ELSE ""

ContinentCodeOf(raw) ==
    IF raw.continent \in DOMAIN CONTINENT_CODES THEN CONTINENT_CODES[raw.continent]
    ELSE "world"

\* the callback assigning a fresh object instead of setting one field
AddRecordOverwrite(records, entry, discipline) ==
    LET result == [best |-> entry.best,
                   world_ranking |-> entry.rank.world,
                   continental_ranking |-> entry.rank.continent,
                   national_ranking |-> entry.rank.country]
    IN  [e \in DOMAIN records \cup {entry.eventId} |->
            IF e = entry.eventId THEN (discipline :> result) ELSE records[e]]

\* the six requests fetchStats sends for one event of a person (lines 230-249):
\* rank/{scope}/{type}/{eventId}.json
Requests(raw, eventId) ==
    [i \in 1..Len(SlotOrder) |->
        [eventId |-> eventId,
         slot |-> SlotOrder[i],
         scope |-> SlotScope(SlotOrder[i], ContinentCodeOf(raw), CountryIsoOf(raw)),
         type |-> SlotType(SlotOrder[i])]]

\* one forEach callback of lines 181-191 / 196-206
AddRecord(records, entry, discipline) ==
    LET old == IF entry.eventId \in DOMAIN records THEN records[entry.eventId] ELSE <<>>
        result == [best |-> entry.best,
                   world_ranking |-> entry.rank.world,
                   continental_ranking |-> entry.rank.continent,
                   national_ranking |-> entry.rank.country]
        new == (discipline :> result) @@ old
    IN  [e \in DOMAIN records \cup {entry.eventId} |->
            IF e = entry.eventId THEN new ELSE records[e]]

RECURSIVE AddRecords(_, _, _)
AddRecords(records, list, discipline) ==
    IF list = <<>> THEN records
    ELSE AddRecords(AddRecord(records, Head(list), discipline), Tail(list), discipline)

\* the transform without the averages pass
TransformSinglesOnly(raw, avatarUrl) ==
    [name |-> raw.name,
     country |-> [name |-> raw.country, iso2 |-> ToLowerCase(CountryIsoOf(raw))],
     continent |-> raw.continent,
     wca_id |-> raw.id,
     avatar |-> IF avatarUrl # "" THEN [url |-> avatarUrl] ELSE Null,
     personal_records |-> AddRecords(<<>>, raw.singles, "single")]

\* lines 166-208; an absent singles or averages list is modelled as an empty list
Transform(raw, avatarUrl) ==
    [name |-> raw.name,
     country |-> [name |-> raw.country, iso2 |-> ToLowerCase(CountryIsoOf(raw))],
     continent |-> raw.continent,
     wca_id |-> raw.id,
     avatar |-> IF avatarUrl # "" THEN [url |-> avatarUrl] ELSE Null,
     personal_records |->
         AddRecords(AddRecords(<<>>, raw.singles, "single"), raw.averages, "average")]

\* eventRecord.single?.national_ranking || 0 and its five siblings (lines 305-317)
RanksOf(eventRecord, discipline) ==
    IF Has(eventRecord, discipline)
    THEN [nr |-> eventRecord[discipline].national_ranking,
          cr |-> eventRecord[discipline].continental_ranking,
          wr |-> eventRecord[discipline].world_ranking]
    ELSE [nr |-> 0, cr |-> 0, wr |-> 0]

\* the guard on the total alone
RegionStatsOfTotalOnly(total, r) ==
    IF total > 0 THEN calculateStats(r, total) ELSE ZeroStats

\* if (total > 0 && rank > 0) stats = calculateStats(rank, total), else the
\* placeholder the literal starts with (lines 301-303, 323-348)
RegionStatsOf(total, r) ==
    IF total > 0 /\ r > 0 THEN calculateStats(r, total) ELSE ZeroStats

\* the continental single total used for the national single row
EventStatsOfMixedTotals(eventRecord, totals) ==
    LET single == RanksOf(eventRecord, "single")
        average == RanksOf(eventRecord, "average")
    IN  [single |-> [nr |-> RegionStatsOf(totals.continentalSingle, single.nr),
                     cr |-> RegionStatsOf(totals.continentalSingle, single.cr),
                     wr |-> RegionStatsOf(totals.worldSingle, single.wr),
                     rank |-> single],
         average |-> [nr |-> RegionStatsOf(totals.nationalAverage, average.nr),
                      cr |-> RegionStatsOf(totals.continentalAverage, average.cr),
                      wr |-> RegionStatsOf(totals.worldAverage, average.wr),
                      rank |-> average]]

\* lines 299-348
EventStatsOf(eventRecord, totals) ==
    LET single == RanksOf(eventRecord, "single")
        average == RanksOf(eventRecord, "average")
    IN  [single |-> [nr |-> RegionStatsOf(totals.nationalSingle, single.nr),
                     cr |-> RegionStatsOf(totals.continentalSingle, single.cr),
                     wr |-> RegionStatsOf(totals.worldSingle, single.wr),
                     rank |-> single],
         average |-> [nr |-> RegionStatsOf(totals.nationalAverage, average.nr),
                      cr |-> RegionStatsOf(totals.continentalAverage, average.cr),
                      wr |-> RegionStatsOf(totals.worldAverage, average.wr),
                      rank |-> average]]

\* ------------------------------------------------------- the event card
Regions == {"nr", "cr", "wr"}

Disciplines == {"single", "average"}

\* Number.prototype.toFixed(1) of a finite x >= 0: the decimal with one
\* fraction digit nearest to x, the larger one when two are equally near
ToFixed1(x) ==
    LET tenths == (20 * x.n + x.d) \div (2 * x.d)
    IN  [whole |-> tenths \div 10, tenth |-> tenths % 10]

\* the text `Top ${x.toFixed(1)}%`; "Top 0.1%" is also one of the fixed texts
TopLabel(x) ==
    IF ToFixed1(x) = [whole |-> 0, tenth |-> 1] THEN [text |-> "Top 0.1%"]
    ELSE [top |-> ToFixed1(x)]

\* the label of an NR row (lines 589-602, 665-678); null when the row is not
\* rendered
NationalLabel(stats, r) ==
    IF r > 0
    THEN IF NumLeq(Rat(999, 10), stats.percentile) THEN [text |-> "Top 0.1%"]
         ELSE IF NumLeq(Num(99), stats.percentile) THEN [text |-> "Top 1%"]
         ELSE TopLabel(NumSub(Num(100), stats.percentile))
    ELSE Null

\* the label of a CR or WR row (lines 611-622, 632-643, 687-698, 708-719)
RegionLabel(stats, r) ==
    IF r > 0
    THEN IF NumLeq(Rat(999, 10), stats.percentile) THEN [text |-> "Top 0.1%"]
         ELSE IF NumLeq(Num(99), stats.percentile) THEN [text |-> "Top 1%"]
         ELSE IF NumLt(Num(0), stats.percentile)
         THEN TopLabel(NumSub(Num(100), stats.percentile))
         ELSE [text |-> "Ranked"]
    ELSE Null

\* the src of the flag image of the player card (line 532):
\* https://flagcdn.com/24x18/{iso2}.png
FlagSrc(info) == [host |-> "flagcdn.com", size |-> "24x18", code |-> info.country.iso2]

\* the labels of the six rows of one event card
CardLabels(eventStats) ==
    [d \in Disciplines |->
        [g \in Regions |->
            IF g = "nr" THEN NationalLabel(eventStats[d].nr, eventStats[d].rank.nr)
            ELSE RegionLabel(eventStats[d][g], eventStats[d].rank[g])]]

\* totals a leaderboard lookup can yield; 0 stands for a failed lookup
LargeTotals == {100, 1000, 2500}

RenderTotals == 0..MaxRenderTotal \cup LargeTotals

\* ranks of a person on a leaderboard of that size; 0 stands for a missing rank
RenderRanks(total) ==
    0..(MaxRenderTotal + 1) \cup {r \in {total - 1, total, total + 1} : r >= 0}

\* ------------------------------------------------- the federation's data
\* the total a leaderboard file reports, by the scope and type in its URL
LeaderboardTotal(scope, type) ==
    (CASE scope = "world" -> 4
       [] scope \in {CONTINENT_CODES[c] : c \in DOMAIN CONTINENT_CODES} -> 3
       [] OTHER -> 2)
    - (IF type = "average" THEN 1 ELSE 0)

\* rank numbers a person file carries; 0 stands for a missing rank
PageRanks == {0, 2}

\* a person ranked in a continent or a country is ranked in the world
RawRanks ==
    {r \in [world : PageRanks, continent : PageRanks, country : PageRanks] :
        r.world = 0 => r.continent = 0 /\ r.country = 0}

\* a singles or averages list: one entry per event of a set of events, the
\* entries of one list carrying the same rank numbers
RankLists ==
    UNION {{[i \in 1..Cardinality(S) |->
                [eventId |-> KeysOf(S)[i], best |-> 1000, rank |-> r]] :
            r \in IF S = {} THEN {CHOOSE r \in RawRanks : TRUE} ELSE RawRanks} :
           S \in SUBSET Events}

\* person files of one ranked single whose country, countryIso2 and continent
\* fields are present or absent, or name no continent of CONTINENT_CODES
RegionPayloads ==
    [name : {"Max Park"}, id : {"2019WANJ01"}, country : {"", "US"},
     countryIso2 : {"", "CA"}, continent : {"", "North America", "Atlantis"},
     singles : {<<[eventId |-> "333", best |-> 1000,
                   rank |-> [world |-> 2, continent |-> 2, country |-> 2]]>>},
     averages : {<<>>}]

\* the body of persons/{id}.json; "" stands for an absent field
PlayerPayloads ==
    [name : {"", "Max Park"}, id : {"2019WANJ01"}, country : {"US"}, countryIso2 : {""},
     continent : {"North America"}, singles : RankLists, averages : RankLists]
    \cup RegionPayloads

AvatarUrls == {"", "https://avatars/1.png"}

\* the person files the two requests of a comparison can receive: those whose
\* entries carry one rank number for the three regions, with the id asked for
QueryPayloads(id) ==
    {[payload EXCEPT !.id = id] :
        payload \in {q \in PlayerPayloads \ RegionPayloads :
                        \A list \in {q.singles, q.averages} : \A i \in 1..Len(list) :
                            /\ list[i].rank.continent = list[i].rank.world
                            /\ list[i].rank.country = list[i].rank.world}}

Typed1 == {"", "2019wanj01"}

Typed2 == {"", "2012park03"}

Typed == {"", " ", "2019wanj01"}

\* ------------------------------------------------------- input domains
Result(w) ==
    [best |-> 1000, world_ranking |-> w, continental_ranking |-> w, national_ranking |-> w]

\* what personal_records[eventId] can hold: a single, an average, or both
EventRecords ==
    {[single |-> Result(w)] : w \in 0..MaxWorldRank}
    \cup {[average |-> Result(w)] : w \in 0..MaxWorldRank}
    \cup {[single |-> Result(w), average |-> Result(v)] :
              w \in 0..MaxWorldRank, v \in 0..MaxWorldRank}

PersonalRecords == UNION {[S -> EventRecords] : S \in SUBSET Events}

Player(records) == [name |-> "name", personal_records |-> records]

\* ------------------------------------------------------------- actions
StandingIdle ==
    /\ rank = 1 /\ totalCompetitors = 1 /\ regionStats = ZeroStats /\ statsPc = "idle"
    /\ labels = <<>>

CompareIdle ==
    /\ player1 = Null /\ player2 = Null /\ points = ZeroPoints /\ table = <<>>
    /\ pointsPc = "idle"

\* the useState initial values (lines 810-812 and 815), no compareStats running
QueryIdle ==
    /\ wcaId1 = "" /\ wcaId2 = "" /\ compareLoading = FALSE /\ compareError = ""
    /\ comparePc = "idle"
    /\ calls = <<>>
    /\ compareThrown = ""

\* the useState initial values (lines 100-104), no fetchStats running
AnalyzerInit ==
    /\ wcaId = "" /\ loading = FALSE /\ playerInfo = Null /\ eventsData = Null
    /\ error = ""
    /\ pc = "idle" /\ player = Null /\ transformedPlayer = Null
    /\ eventIds = <<>> /\ eventIdx = 0 /\ allEventsData = <<>>
    /\ responses = <<>> /\ eventTotals = <<>>
    /\ thrown = "" /\ rejected = FALSE /\ faults = 0 /\ issued = <<>>

InitStanding ==
    /\ rank \in 1..MaxRank
    /\ totalCompetitors \in 1..MaxTotal
    /\ regionStats = ZeroStats
    /\ statsPc = "call"
    /\ labels = <<>>
    /\ CompareIdle
    /\ AnalyzerInit
    /\ QueryIdle
    /\ route = "/"

\* one call calculateStats(rank, totalCompetitors)
CallCalculateStats ==
    /\ statsPc = "call"
    /\ regionStats' = calculateStats(rank, totalCompetitors)
    /\ statsPc' = "return"
    /\ UNCHANGED <<rank, totalCompetitors, labels, compareVars, analyzerVars, queryVars,
                   route>>

NextStanding == CallCalculateStats

SpecStanding == InitStanding /\ [][NextStanding]_vars

\* ---- one standing from the lookup results to its labels
InitRender ==
    /\ totalCompetitors \in RenderTotals
    /\ rank \in RenderRanks(totalCompetitors)
    /\ regionStats = ZeroStats
    /\ statsPc = "stats"
    /\ labels = <<>>
    /\ CompareIdle
    /\ AnalyzerInit
    /\ QueryIdle
    /\ route = "/"

\* the guarded call of lines 323-325 (and its five siblings)
ComputeRegionStats ==
    /\ statsPc = "stats"
    /\ regionStats' = RegionStatsOf(totalCompetitors, rank)
    /\ statsPc' = "render"
    /\ UNCHANGED <<rank, totalCompetitors, labels, compareVars, analyzerVars, queryVars,
                   route>>

\* the six rows of an event card whose standings are all regionStats and whose
\* ranks are all rank (lines 584-646, 660-722)
RenderLabels ==
    /\ statsPc = "render"
    /\ labels' = LET standing == [nr |-> regionStats, cr |-> regionStats, wr |-> regionStats,
                                  rank |-> [nr |-> rank, cr |-> rank, wr |-> rank]]
                 IN  CardLabels([single |-> standing, average |-> standing])
    /\ statsPc' = "rendered"
    /\ UNCHANGED <<rank, totalCompetitors, regionStats, compareVars, analyzerVars,
                   queryVars, route>>

NextRender == ComputeRegionStats \/ RenderLabels

SpecRender == InitRender /\ [][NextRender]_vars

InitCompare ==
    /\ player1 \in {Player(r) : r \in PersonalRecords}
    /\ player2 \in {Player(r) : r \in PersonalRecords}
    /\ points = ZeroPoints
    /\ table = <<>>
    /\ pointsPc = "render"
    /\ StandingIdle
    /\ AnalyzerInit
    /\ QueryIdle
    /\ route = "/compare"

\* the render under `player1 && player2 && !loading`: the POINTS SCORING card
\* (const points = calculatePoints()) and the head-to-head table
RenderPoints ==
    /\ pointsPc = "render"
    /\ points' = calculatePoints(player1, player2)
    /\ table' = TableRows(player1, player2, getAllEvents(player1, player2))
    /\ pointsPc' = "shown"
    /\ UNCHANGED <<player1, player2, standingVars, analyzerVars, queryVars, route>>

NextCompare == RenderPoints

SpecCompare == InitCompare /\ [][NextCompare]_vars

\* ---- CubifyAnalyzer
otherVars == <<standingVars, compareVars, queryVars, route>>

\* onChange of the input, which is disabled while loading (lines 466-468)
SetWcaId ==
    /\ ~loading
    /\ \E typed \in Typed :
           /\ ToUpperCase(typed) # wcaId
           /\ wcaId' = ToUpperCase(typed)
    /\ UNCHANGED <<loading, playerInfo, eventsData, error, fetchVars, otherVars>>

\* fetchStats with a blank identifier (lines 117-120); the button and the input
\* that start it are disabled while loading
FetchStatsBlank ==
    /\ ~loading
    /\ Trim(wcaId) = ""
    /\ error' = "Please enter a WCA ID"
    /\ UNCHANGED <<wcaId, loading, playerInfo, eventsData, fetchVars, otherVars>>

\* fetchStats up to its first await, without line 125
FetchStatsBeginKeepsEvents ==
    /\ ~loading
    /\ Trim(wcaId) # ""
    /\ loading' = TRUE
    /\ error' = ""
    /\ playerInfo' = Null
    /\ pc' = "fetchPlayer"
    /\ player' = Null /\ transformedPlayer' = Null
    /\ eventIds' = <<>> /\ eventIdx' = 0 /\ allEventsData' = <<>>
    /\ responses' = <<>> /\ eventTotals' = <<>>
    /\ thrown' = "" /\ rejected' = FALSE /\ faults' = 0 /\ issued' = <<>>
    /\ UNCHANGED <<wcaId, eventsData, otherVars>>

\* fetchStats up to its first await (lines 117-130)
FetchStatsBegin ==
    /\ ~loading
    /\ Trim(wcaId) # ""
    /\ loading' = TRUE
    /\ error' = ""
    /\ playerInfo' = Null
    /\ eventsData' = Null
    /\ pc' = "fetchPlayer"
    /\ player' = Null /\ transformedPlayer' = Null
    /\ eventIds' = <<>> /\ eventIdx' = 0 /\ allEventsData' = <<>>
    /\ responses' = <<>> /\ eventTotals' = <<>>
    /\ thrown' = "" /\ rejected' = FALSE /\ faults' = 0 /\ issued' = <<>>
    /\ UNCHANGED <<wcaId, otherVars>>

\* the catch and finally blocks (lines 361-372): when the three seconds are not
\* over yet the function waits before it shows the error
Catch(message) ==
    /\ thrown' = message
    /\ \E elapsed \in BOOLEAN :
           IF elapsed
           THEN error' = message /\ loading' = FALSE /\ pc' = "idle"
           ELSE pc' = "catchDelay" /\ UNCHANGED <<error, loading>>

\* await fetch(persons/{wcaId}.json) and the ok test (lines 130-136)
PlayerFetched ==
    /\ pc = "fetchPlayer"
    /\ \/ /\ rejected' = TRUE
          /\ Catch("Failed to fetch")
       \/ /\ Catch("Player not found. Please check the WCA ID.")
          /\ UNCHANGED rejected
       \/ /\ pc' = "parsePlayer"
          /\ UNCHANGED <<thrown, rejected, error, loading>>
    /\ UNCHANGED <<wcaId, playerInfo, eventsData, player, transformedPlayer, eventIds,
                   eventIdx, allEventsData, responses, eventTotals, faults, issued,
                   otherVars>>

\* await playerResponse.json() and the avatar request sent after it (lines 138-143)
PlayerParsed ==
    /\ pc = "parsePlayer"
    /\ \/ /\ rejected' = TRUE
          /\ Catch("Unexpected token")
          /\ UNCHANGED player
       \/ /\ player' \in PlayerPayloads \cup {Null}
          /\ pc' = "fetchAvatar"
          /\ UNCHANGED <<thrown, rejected, error, loading>>
    /\ UNCHANGED <<wcaId, playerInfo, eventsData, transformedPlayer, eventIds,
                   eventIdx, allEventsData, responses, eventTotals, faults, issued,
                   otherVars>>

\* lines 152-230, run once the avatar is settled: validation, the transform,
\* setPlayerInfo and the six requests of the first event
AfterAvatar(avatarUrl) ==
    IF player = Null \/ player.name = ""
    THEN /\ Catch("Invalid player data received from API")
         /\ UNCHANGED <<playerInfo, transformedPlayer, eventIds, eventIdx, issued>>
    ELSE LET transformed == Transform(player, avatarUrl)
         IN  IF DOMAIN transformed.personal_records = {}
             THEN /\ Catch("No competition records found for this player.")
                  /\ UNCHANGED <<playerInfo, transformedPlayer, eventIds, eventIdx, issued>>
             ELSE /\ playerInfo' = transformed
                  /\ transformedPlayer' = transformed
                  /\ eventIds' = ObjectKeys(transformed.personal_records)
                  /\ eventIdx' = 1
                  /\ issued' = Requests(player, ObjectKeys(transformed.personal_records)[1])
                  /\ pc' = "fetchTotals"
                  /\ UNCHANGED <<thrown, error, loading>>

\* the avatar request outside a try block: its rejection reaches the catch
AvatarFetchedUncaught ==
    /\ pc = "fetchAvatar"
    /\ \/ /\ rejected' = TRUE
          /\ Catch("Failed to fetch")
          /\ UNCHANGED <<playerInfo, transformedPlayer, eventIds, eventIdx, issued>>
       \/ /\ AfterAvatar("")
          /\ UNCHANGED rejected
       \/ /\ pc' = "parseAvatar"
          /\ UNCHANGED <<thrown, rejected, error, loading, playerInfo, transformedPlayer,
                         eventIds, eventIdx, issued>>
    /\ UNCHANGED <<wcaId, eventsData, player, allEventsData, responses, eventTotals,
                   faults, otherVars>>

\* await fetch(api/v0/persons/{wcaId}) inside its own try (lines 142-150)
AvatarFetched ==
    /\ pc = "fetchAvatar"
    /\ \/ /\ rejected' = TRUE
          /\ AfterAvatar("")
       \/ /\ AfterAvatar("")
          /\ UNCHANGED rejected
       \/ /\ pc' = "parseAvatar"
          /\ UNCHANGED <<thrown, rejected, error, loading, playerInfo, transformedPlayer,
                         eventIds, eventIdx, issued>>
    /\ UNCHANGED <<wcaId, eventsData, player, allEventsData, responses, eventTotals,
                   faults, otherVars>>

\* await wcaResponse.json() (lines 145-146)
AvatarParsed ==
    /\ pc = "parseAvatar"
    /\ \/ /\ rejected' = TRUE
          /\ AfterAvatar("")
       \/ /\ \E url \in AvatarUrls : AfterAvatar(url)
          /\ UNCHANGED rejected
    /\ UNCHANGED <<wcaId, eventsData, player, allEventsData, responses, eventTotals,
                   faults, otherVars>>

\* await Promise.all of the six requests of eventIds[eventIdx] (lines 230-249)
TotalsFetched ==
    /\ pc = "fetchTotals"
    /\ \/ /\ faults < MaxFaults
          /\ faults' = faults + 1
          /\ rejected' = TRUE
          /\ Catch("Failed to fetch")
          /\ UNCHANGED responses
       \/ /\ \E failed \in SUBSET Slots :
                 /\ faults + Cardinality(failed) <= MaxFaults
                 /\ faults' = faults + Cardinality(failed)
                 /\ responses' = [slot \in Slots |-> IF slot \in failed THEN "notok" ELSE "ok"]
          /\ pc' = "parseTotals"
          /\ UNCHANGED <<thrown, rejected, error, loading>>
    /\ UNCHANGED <<wcaId, playerInfo, eventsData, player, transformedPlayer, eventIds,
                   eventIdx, allEventsData, eventTotals, issued, otherVars>>

\* the awaits of response.json() of the ok responses (lines 261-297), the stats
\* of the event (lines 299-350), then the requests of the next event or, after
\* the last one, setEventsData and the rest of the three seconds (lines 353-360)
TotalsParsed ==
    /\ pc = "parseTotals"
    /\ LET eventId == eventIds[eventIdx]
           okSlots == {slot \in Slots : responses[slot] = "ok"}
       IN  \/ /\ okSlots # {}
              /\ faults < MaxFaults
              /\ faults' = faults + 1
              /\ rejected' = TRUE
              /\ Catch("Unexpected token")
              /\ UNCHANGED <<eventsData, eventIdx, allEventsData, eventTotals, issued>>
           \/ \E noTotal \in SUBSET okSlots :
                 /\ faults + Cardinality(noTotal) <= MaxFaults
                 /\ faults' = faults + Cardinality(noTotal)
                 /\ LET totals ==
                            [slot \in Slots |->
                                IF slot \in okSlots \ noTotal
                                THEN LeaderboardTotal(
                                         SlotScope(slot, ContinentCodeOf(player),
                                                   CountryIsoOf(player)),
                                         SlotType(slot))
                                ELSE 0]
                        eventStats ==
                            EventStatsOf(transformedPlayer.personal_records[eventId], totals)
                        all == [e \in DOMAIN allEventsData \cup {eventId} |->
                                   IF e = eventId THEN eventStats ELSE allEventsData[e]]
                    IN  /\ allEventsData' = all
                        /\ eventTotals' =
                               [e \in DOMAIN eventTotals \cup {eventId} |->
                                   IF e = eventId THEN totals ELSE eventTotals[e]]
                        /\ IF eventIdx < Len(eventIds)
                           THEN /\ eventIdx' = eventIdx + 1
                                /\ issued' = issued \o Requests(player, eventIds[eventIdx + 1])
                                /\ pc' = "fetchTotals"
                                /\ UNCHANGED <<eventsData, loading>>
                           ELSE /\ eventsData' = all
                                /\ UNCHANGED <<eventIdx, issued>>
                                /\ \E elapsed \in BOOLEAN :
                                       IF elapsed
                                       THEN loading' = FALSE /\ pc' = "idle"
                                       ELSE pc' = "delay" /\ UNCHANGED loading
                 /\ UNCHANGED <<thrown, rejected, error>>
    /\ UNCHANGED <<wcaId, playerInfo, player, transformedPlayer, eventIds, responses,
                   otherVars>>

\* the timer of line 359, then finally
DelayElapsed ==
    /\ pc = "delay"
    /\ loading' = FALSE
    /\ pc' = "idle"
    /\ UNCHANGED <<wcaId, playerInfo, eventsData, error, player, transformedPlayer,
                   eventIds, eventIdx, allEventsData, responses, eventTotals, thrown,
                   rejected, faults, issued, otherVars>>

\* the timer of line 366 and setError, without the finally block
CatchDelayElapsedNoFinally ==
    /\ pc = "catchDelay"
    /\ error' = thrown
    /\ pc' = "idle"
    /\ UNCHANGED <<wcaId, loading, playerInfo, eventsData, player, transformedPlayer,
                   eventIds, eventIdx, allEventsData, responses, eventTotals, thrown,
                   rejected, faults, issued, otherVars>>

\* the timer of line 366, then setError and finally
CatchDelayElapsed ==
    /\ pc = "catchDelay"
    /\ error' = thrown
    /\ loading' = FALSE
    /\ pc' = "idle"
    /\ UNCHANGED <<wcaId, playerInfo, eventsData, player, transformedPlayer,
                   eventIds, eventIdx, allEventsData, responses, eventTotals, thrown,
                   rejected, faults, issued, otherVars>>

Init == AnalyzerInit /\ StandingIdle /\ CompareIdle /\ QueryIdle /\ route = "/"

Next ==
    \/ SetWcaId
    \/ FetchStatsBlank
    \/ FetchStatsBegin
    \/ PlayerFetched
    \/ PlayerParsed
    \/ AvatarFetched
    \/ AvatarParsed
    \/ TotalsFetched
    \/ TotalsParsed
    \/ DelayElapsed
    \/ CatchDelayElapsed

Spec == Init /\ [][Next]_vars

\* ---- ComparePage
compareRest == <<standingVars, analyzerVars, points, table, pointsPc, route>>

\* the template literals of lines 823 and 841 on the identifiers in use
NotFoundMessage(id) ==
    IF id = "2019WANJ01" THEN "Player 2019WANJ01 not found. Please check the WCA ID."
    ELSE "Player 2012PARK03 not found. Please check the WCA ID."

InvalidDataMessage(id) ==
    IF id = "2019WANJ01" THEN "Invalid player data received for 2019WANJ01"
    ELSE "Invalid player data received for 2012PARK03"

\* onChange of the two inputs, disabled while loading (lines 1074-1075, 1084-1085)
SetWcaId1 ==
    /\ ~compareLoading
    /\ \E typed \in Typed1 :
           /\ ToUpperCase(typed) # wcaId1
           /\ wcaId1' = ToUpperCase(typed)
    /\ UNCHANGED <<wcaId2, compareLoading, compareError, comparePc, calls, compareThrown,
                   player1, player2, compareRest>>

SetWcaId2 ==
    /\ ~compareLoading
    /\ \E typed \in Typed2 :
           /\ ToUpperCase(typed) # wcaId2
           /\ wcaId2' = ToUpperCase(typed)
    /\ UNCHANGED <<wcaId1, compareLoading, compareError, comparePc, calls, compareThrown,
                   player1, player2, compareRest>>

\* compareStats with a blank identifier (lines 894-897); the button that starts
\* it is disabled while loading
CompareStatsBlank ==
    /\ ~compareLoading
    /\ Trim(wcaId1) = "" \/ Trim(wcaId2) = ""
    /\ compareError' = "Please enter both WCA IDs"
    /\ UNCHANGED <<wcaId1, wcaId2, compareLoading, comparePc, calls, compareThrown,
                   player1, player2, compareRest>>

\* compareStats up to its await, started although the button is disabled
CompareStatsBeginUnguarded ==
    /\ Trim(wcaId1) # "" /\ Trim(wcaId2) # ""
    /\ compareLoading' = TRUE
    /\ compareError' = ""
    /\ player1' = Null
    /\ player2' = Null
    /\ comparePc' = "all"
    /\ calls' = [i \in {1, 2} |->
                    [pc |-> "fetchPlayer",
                     wcaId |-> Trim(IF i = 1 THEN wcaId1 ELSE wcaId2),
                     player |-> Null,
                     value |-> Null]]
    /\ compareThrown' = ""
    /\ UNCHANGED <<wcaId1, wcaId2, compareRest>>

\* compareStats up to its await (lines 894-910): both fetchPlayerData calls run
\* up to their first await
CompareStatsBegin ==
    /\ ~compareLoading
    /\ Trim(wcaId1) # "" /\ Trim(wcaId2) # ""
    /\ compareLoading' = TRUE
    /\ compareError' = ""
    /\ player1' = Null
    /\ player2' = Null
    /\ comparePc' = "all"
    /\ calls' = [i \in {1, 2} |->
                    [pc |-> "fetchPlayer",
                     wcaId |-> Trim(IF i = 1 THEN wcaId1 ELSE wcaId2),
                     player |-> Null,
                     value |-> Null]]
    /\ compareThrown' = ""
    /\ UNCHANGED <<wcaId1, wcaId2, compareRest>>

\* fetchPlayerData call i throws: the Promise.all of line 907 rejects and
\* compareStats goes to its catch block (lines 921-932), which waits for the
\* rest of the three seconds before it shows the error.  The other call may
\* still be running; what it returns or throws is dropped, and it writes no
\* state, so it is not followed any further.
Reject(i, message) ==
    /\ calls' = [calls EXCEPT ![i].pc = "thrown"]
    /\ compareThrown' = message
    /\ \E elapsed \in BOOLEAN :
           IF elapsed
           THEN compareError' = message /\ compareLoading' = FALSE /\ comparePc' = "idle"
           ELSE comparePc' = "catchDelay" /\ UNCHANGED <<compareError, compareLoading>>

\* await fetch(persons/{wcaId}.json) and the ok test (lines 818-824)
PlayerDataFetched(i) ==
    /\ comparePc = "all"
    /\ calls[i].pc = "fetchPlayer"
    /\ \/ Reject(i, "Failed to fetch")
       \/ Reject(i, NotFoundMessage(calls[i].wcaId))
       \/ /\ calls' = [calls EXCEPT ![i].pc = "parsePlayer"]
          /\ UNCHANGED <<compareLoading, compareError, comparePc, compareThrown>>
    /\ UNCHANGED <<wcaId1, wcaId2, player1, player2, compareRest>>

\* await playerResponse.json() and the avatar request sent after it (lines 826-831)
PlayerDataParsed(i) ==
    /\ comparePc = "all"
    /\ calls[i].pc = "parsePlayer"
    /\ \/ Reject(i, "Unexpected token")
       \/ /\ \E payload \in QueryPayloads(calls[i].wcaId) \cup {Null} :
                 calls' = [calls EXCEPT ![i].pc = "fetchAvatar", ![i].player = payload]
          /\ UNCHANGED <<compareLoading, compareError, comparePc, compareThrown>>
    /\ UNCHANGED <<wcaId1, wcaId2, player1, player2, compareRest>>

\* without `|| !player.name` in the test of line 840
AfterPlayerAvatarNoNameTest(i, avatarUrl) ==
    IF calls[i].player = Null
    THEN Reject(i, InvalidDataMessage(calls[i].wcaId))
    ELSE /\ calls' = [calls EXCEPT ![i].pc = "returned",
                                   ![i].value = Transform(calls[i].player, avatarUrl)]
         /\ UNCHANGED <<compareLoading, compareError, comparePc, compareThrown>>

\* lines 840-890, run once the avatar is settled: validation, the transform (the
\* one of fetchStats, but with no test for an empty personal_records) and return
AfterPlayerAvatar(i, avatarUrl) ==
    IF calls[i].player = Null \/ calls[i].player.name = ""
    THEN Reject(i, InvalidDataMessage(calls[i].wcaId))
    ELSE /\ calls' = [calls EXCEPT ![i].pc = "returned",
                                   ![i].value = Transform(calls[i].player, avatarUrl)]
         /\ UNCHANGED <<compareLoading, compareError, comparePc, compareThrown>>

\* await fetch(api/v0/persons/{wcaId}) inside its own try (lines 830-838): the
\* request rejects or the response is not ok, or the response is ok
PlayerAvatarFetched(i) ==
    /\ comparePc = "all"
    /\ calls[i].pc = "fetchAvatar"
    /\ \/ AfterPlayerAvatar(i, "")
       \/ /\ calls' = [calls EXCEPT ![i].pc = "parseAvatar"]
          /\ UNCHANGED <<compareLoading, compareError, comparePc, compareThrown>>
    /\ UNCHANGED <<wcaId1, wcaId2, player1, player2, compareRest>>

\* await wcaResponse.json() (lines 833-834): it rejects, or it gives a body
\* with or without person.avatar.url
PlayerAvatarParsed(i) ==
    /\ comparePc = "all"
    /\ calls[i].pc = "parseAvatar"
    /\ \E url \in AvatarUrls : AfterPlayerAvatar(i, url)
    /\ UNCHANGED <<wcaId1, wcaId2, player1, player2, compareRest>>

\* both calls have returned: lines 907-920
PromiseAllFulfilled ==
    /\ comparePc = "all"
    /\ calls[1].pc = "returned" /\ calls[2].pc = "returned"
    /\ player1' = calls[1].value
    /\ player2' = calls[2].value
    /\ \E elapsed \in BOOLEAN :
           IF elapsed
           THEN compareLoading' = FALSE /\ comparePc' = "idle"
           ELSE comparePc' = "delay" /\ UNCHANGED compareLoading
    /\ UNCHANGED <<wcaId1, wcaId2, compareError, calls, compareThrown, compareRest>>

\* the timer of line 919, then finally
CompareDelayElapsed ==
    /\ comparePc = "delay"
    /\ compareLoading' = FALSE
    /\ comparePc' = "idle"
    /\ UNCHANGED <<wcaId1, wcaId2, compareError, calls, compareThrown, player1, player2,
                   compareRest>>

\* the timer of line 926, then setError and finally
CompareCatchDelayElapsed ==
    /\ comparePc = "catchDelay"
    /\ compareError' = compareThrown
    /\ compareLoading' = FALSE
    /\ comparePc' = "idle"
    /\ UNCHANGED <<wcaId1, wcaId2, calls, compareThrown, player1, player2, compareRest>>

NextQuery ==
    \/ SetWcaId1
    \/ SetWcaId2
    \/ CompareStatsBlank
    \/ CompareStatsBegin
    \/ \E i \in {1, 2} :
           \/ PlayerDataFetched(i)
           \/ PlayerDataParsed(i)
           \/ PlayerAvatarFetched(i)
           \/ PlayerAvatarParsed(i)
    \/ PromiseAllFulfilled
    \/ CompareDelayElapsed
    \/ CompareCatchDelayElapsed

\* ---- the application: one of its two pages is mounted
InitApp ==
    /\ route \in {"/", "/compare"}
    /\ AnalyzerInit /\ StandingIdle /\ CompareIdle /\ QueryIdle

NextApp ==
    \/ route = "/" /\ SetWcaId
    \/ route = "/" /\ FetchStatsBlank
    \/ route = "/" /\ FetchStatsBegin
    \/ route = "/" /\ PlayerFetched
    \/ route = "/" /\ PlayerParsed
    \/ route = "/" /\ AvatarFetched
    \/ route = "/" /\ AvatarParsed
    \/ route = "/" /\ TotalsFetched
    \/ route = "/" /\ TotalsParsed
    \/ route = "/" /\ DelayElapsed
    \/ route = "/" /\ CatchDelayElapsed
    \/ route = "/compare" /\ SetWcaId1
    \/ route = "/compare" /\ SetWcaId2
    \/ route = "/compare" /\ CompareStatsBlank
    \/ route = "/compare" /\ CompareStatsBegin
    \/ \E i \in {1, 2} : route = "/compare" /\ PlayerDataFetched(i)
    \/ \E i \in {1, 2} : route = "/compare" /\ PlayerDataParsed(i)
    \/ \E i \in {1, 2} : route = "/compare" /\ PlayerAvatarFetched(i)
    \/ \E i \in {1, 2} : route = "/compare" /\ PlayerAvatarParsed(i)
    \/ route = "/compare" /\ PromiseAllFulfilled
    \/ route = "/compare" /\ CompareDelayElapsed
    \/ route = "/compare" /\ CompareCatchDelayElapsed

SpecApp == InitApp /\ [][NextApp]_vars

\* ---- the two pages with the requests settling
\* the person files followed to the end of a query: no name or a name, and
\* ranked singles in none, one or both of the events
LiveFile(file) ==
    file # Null =>
        /\ file.country = "US" /\ file.countryIso2 = "" /\ file.continent = "North America"
        /\ file.averages = <<>>
        /\ \A i \in 1..Len(file.singles) :
               file.singles[i].rank = [world |-> 2, continent |-> 2, country |-> 2]

\* a step of the fetchStats invocation in flight: a request settles, the
\* person file or the avatar body is parsed, or a timer fires
FetchStatsResumes ==
    /\ route = "/"
    /\ \/ PlayerFetched
       \/ PlayerParsed /\ LiveFile(player')
       \/ AvatarFetched
       \/ AvatarParsed
       \/ TotalsFetched
       \/ DelayElapsed
       \/ CatchDelayElapsed

\* the json() promises of the leaderboard responses settle (lines 261-297) and
\* fetchStats goes on to the next event, to its end or to its catch block.
\* Among the steps of NextLive only those of TotalsParsed take pc away from
\* "parseTotals", and TotalsParsed can step whenever pc is there (with
\* noTotal = {}), so fairness of this change of pc is fairness of TotalsParsed.
TotalsSettle ==
    /\ route = "/"
    /\ pc = "parseTotals"
    /\ pc' \in {"fetchTotals", "delay", "idle", "catchDelay"}

\* a step of the compareStats invocation in flight
CompareStatsResumes ==
    /\ route = "/compare"
    /\ \/ \E i \in {1, 2} : PlayerDataFetched(i)
       \/ \E i \in {1, 2} : PlayerDataParsed(i) /\ LiveFile(calls'[i].player)
       \/ \E i \in {1, 2} : PlayerAvatarFetched(i)
       \/ \E i \in {1, 2} : PlayerAvatarParsed(i)
       \/ PromiseAllFulfilled
       \/ CompareDelayElapsed
       \/ CompareCatchDelayElapsed

NextLive ==
    \/ route = "/" /\ SetWcaId
    \/ route = "/" /\ FetchStatsBlank
    \/ route = "/" /\ FetchStatsBegin
    \/ route = "/" /\ PlayerFetched
    \/ route = "/" /\ PlayerParsed /\ LiveFile(player')
    \/ route = "/" /\ AvatarFetched
    \/ route = "/" /\ AvatarParsed
    \/ route = "/" /\ TotalsFetched
    \/ route = "/" /\ TotalsParsed
    \/ route = "/" /\ DelayElapsed
    \/ route = "/" /\ CatchDelayElapsed
    \/ route = "/compare" /\ SetWcaId1
    \/ route = "/compare" /\ SetWcaId2
    \/ route = "/compare" /\ CompareStatsBlank
    \/ route = "/compare" /\ CompareStatsBegin
    \/ \E i \in {1, 2} : route = "/compare" /\ PlayerDataFetched(i)
    \/ \E i \in {1, 2} : route = "/compare" /\ PlayerDataParsed(i) /\ LiveFile(calls'[i].player)
    \/ \E i \in {1, 2} : route = "/compare" /\ PlayerAvatarFetched(i)
    \/ \E i \in {1, 2} : route = "/compare" /\ PlayerAvatarParsed(i)
    \/ route = "/compare" /\ PromiseAllFulfilled
    \/ route = "/compare" /\ CompareDelayElapsed
    \/ route = "/compare" /\ CompareCatchDelayElapsed

\* every outstanding request settles and every timer fires; the user is never
\* obliged to type or to start a query
SpecLive ==
    /\ InitApp
    /\ [][NextLive]_vars
    /\ WF_vars(FetchStatsResumes)
    /\ WF_pc(TotalsSettle)
    /\ WF_vars(CompareStatsResumes)

\* ============================================================= properties
Returned == statsPc = "return"

Shown == pointsPc = "shown"

\* C1: for positive integers rank and totalCompetitors, calculateStats returns
\* totalCompetitors unchanged, percentDownList = rank / totalCompetitors * 100
\* and percentile = (1 - (rank - 1) / totalCompetitors) * 100 clamped into
\* [0, 100]; (1, 100) gives percentile 100 and percentDownList 1, and (50, 100)
\* gives percentile 51 and percentDownList 50.
C1_StandingFormula ==
    Returned =>
        LET pdl == regionStats.percentDownList
            pct == regionStats.percentile
            \* (1 - (rank - 1) / total) * 100 = raw / total; it never exceeds 100
            raw == (totalCompetitors - rank + 1) * 100
        IN  /\ regionStats.totalCompetitors = totalCompetitors
            /\ pdl.d > 0 /\ pdl.n * totalCompetitors = rank * 100 * pdl.d
            /\ pct.d > 0
            /\ IF raw < 0 THEN pct.n = 0 ELSE pct.n * totalCompetitors = raw * pct.d
            /\ (rank = 1 /\ totalCompetitors = 100 => pct = Num(100) /\ pdl = Num(1))
            /\ (rank = 50 /\ totalCompetitors = 100 => pct = Num(51) /\ pdl = Num(50))

C1_Witness ==
    /\ Returned /\ rank = 50 /\ totalCompetitors = 100
    /\ regionStats.percentile = Num(51) /\ regionStats.percentDownList = Num(50)

\* C2: for positive integers rank and totalCompetitors, the result of
\* calculateStats has 0 <= percentile <= 100 and 0 <= percentDownList <= 100.
C2_BothInRange ==
    Returned =>
        /\ NumLeq(Num(0), regionStats.percentile)
        /\ NumLeq(regionStats.percentile, Num(100))
        /\ NumLeq(Num(0), regionStats.percentDownList)
        /\ NumLeq(regionStats.percentDownList, Num(100))

\* the rank and the total behind the standing of one region of one discipline
RankField(region) ==
    CASE region = "nr" -> "national_ranking"
      [] region = "cr" -> "continental_ranking"
      [] region = "wr" -> "world_ranking"

RegionSlot(region, discipline) ==
    CASE region = "nr" /\ discipline = "single" -> "nationalSingle"
      [] region = "nr" /\ discipline = "average" -> "nationalAverage"
      [] region = "cr" /\ discipline = "single" -> "continentalSingle"
      [] region = "cr" /\ discipline = "average" -> "continentalAverage"
      [] region = "wr" /\ discipline = "single" -> "worldSingle"
      [] region = "wr" /\ discipline = "average" -> "worldAverage"

SourceRank(e, discipline, region) ==
    IF Has(playerInfo.personal_records[e], discipline)
    THEN playerInfo.personal_records[e][discipline][RankField(region)]
    ELSE 0

ExplicitThrows ==
    {"Player not found. Please check the WCA ID.",
     "Invalid player data received from API",
     "No competition records found for this player."}

\* C3: whenever the rank or the leaderboard total of a region and discipline is
\* <= 0 (rank missing, lookup failed, total absent) the standing of that region
\* is the zero placeholder, and that raises no error: calculateStats is never
\* applied to a non-positive rank or total.
C3_UnrankedPlaceholder ==
    /\ \A e \in DOMAIN allEventsData : \A d \in Disciplines : \A g \in Regions :
           (SourceRank(e, d, g) <= 0 \/ eventTotals[e][RegionSlot(g, d)] <= 0)
               => allEventsData[e][d][g] = ZeroStats
    /\ (eventsData # Null => eventsData = allEventsData)
    /\ (thrown # "" => rejected \/ thrown \in ExplicitThrows)
    /\ (error # "" /\ error # "Please enter a WCA ID" => error = thrown)

C3_Witness ==
    /\ pc = "idle" /\ ~loading /\ eventsData # Null /\ error = "" /\ thrown = ""
    /\ \E e \in DOMAIN eventsData :
           /\ eventTotals[e].nationalSingle = 0
           /\ SourceRank(e, "single", "nr") > 0
           /\ eventsData[e].single.nr = ZeroStats
           /\ eventsData[e].single.wr # ZeroStats
           /\ SourceRank(e, "average", "cr") = 0
           /\ eventTotals[e].continentalAverage > 0
           /\ eventsData[e].average.cr = ZeroStats

\* C4: on a leaderboard of size N the percentile does not increase with the
\* rank: for 1 <= r1 <= r2 <= N, percentile(r1, N) >= percentile(r2, N).
C4_PercentileMonotone ==
    Returned /\ rank <= totalCompetitors =>
        \A r2 \in rank..totalCompetitors :
            NumLeq(calculateStats(r2, totalCompetitors).percentile, regionStats.percentile)

C4_Witness ==
    /\ Returned /\ rank = 2 /\ totalCompetitors = 4
    /\ NumLt(calculateStats(3, 4).percentile, regionStats.percentile)

\* C5: rank 1 of N has percentile exactly 100; rank N of N > 1 has percentile
\* 100 * (1 - (N - 1) / N), which is greater than 0.
C5_FirstAndLast ==
    Returned =>
        /\ (rank = 1 => regionStats.percentile = Num(100))
        /\ (rank = totalCompetitors /\ totalCompetitors > 1 =>
                /\ regionStats.percentile.n * totalCompetitors
                       = 100 * regionStats.percentile.d
                /\ NumLt(Num(0), regionStats.percentile))

C5_Witness ==
    /\ Returned /\ rank = 7 /\ totalCompetitors = 7
    /\ regionStats.percentile = Rat(100, 7)

\* C6: getBetterRank returns the side with the lower rank when both ranks are
\* present, the side whose rank is present when exactly one is absent, and tie
\* when both are absent or the ranks are equal.
C6_BetterRank ==
    Shown =>
        \A i \in 1..Len(table) :
            LET r1 == table[i].rank1
                r2 == table[i].rank2
                w == table[i].winner
            IN  /\ (r1 > 0 /\ r2 > 0 /\ r1 < r2 => w = "player1")
                /\ (r1 > 0 /\ r2 > 0 /\ r2 < r1 => w = "player2")
                /\ (r1 > 0 /\ r2 = 0 => w = "player1")
                /\ (r1 = 0 /\ r2 > 0 => w = "player2")
                /\ (r1 = r2 => w = "tie")

C6_Witness ==
    /\ Shown
    /\ \E i \in 1..Len(table) :
           table[i].rank1 = 0 /\ table[i].rank2 = 2 /\ table[i].winner = "player2"
    /\ \E i \in 1..Len(table) :
           table[i].rank1 = 1 /\ table[i].rank2 = 2 /\ table[i].winner = "player1"

\* the events both players hold, and when rank a beats rank b (0 = absent)
SharedEvents == DOMAIN player1.personal_records \cap DOMAIN player2.personal_records

Beats(a, b) == (a > 0 /\ b > 0 /\ a < b) \/ (a > 0 /\ b = 0)

\* comparisons player p wins against q over the events both hold
Wins(p, q) ==
    Cardinality({c \in SharedEvents \X Disciplines :
        /\ Has(p.personal_records[c[1]], c[2])
        /\ Has(q.personal_records[c[1]], c[2])
        /\ Beats(p.personal_records[c[1]][c[2]].world_ranking,
                 q.personal_records[c[1]][c[2]].world_ranking)})

\* results player p has in events q does not hold
SoloResults(p, q) ==
    Cardinality({c \in (DOMAIN p.personal_records \ DOMAIN q.personal_records) \X Disciplines :
        Has(p.personal_records[c[1]], c[2])})

Range(seq) == {seq[i] : i \in 1..Len(seq)}

\* C7: the fair tally covers the events present in both records only; per such
\* event the winner of the single comparison gets one point when both have a
\* single, likewise for the average; a tie or a discipline missing on either
\* side gives nobody a point.
C7_FairTally ==
    Shown =>
        /\ points.fair.player1 = Wins(player1, player2)
        /\ points.fair.player2 = Wins(player2, player1)

C7_Witness ==
    /\ Shown
    /\ points.fair.player1 = 1 /\ points.fair.player2 = 1
    /\ \E e \in SharedEvents :
           /\ Has(player1.personal_records[e], "average")
           /\ ~Has(player2.personal_records[e], "average")
    /\ \E i \in 1..Len(table) :
           table[i].winner = "tie" /\ table[i].rank1 > 0

\* C8: the unfair tally spans the union of the events; an event only one player
\* holds gives that player one point per discipline held, and an event both hold
\* gives what the fair tally gives. A with only 333 and B with only 444 (singles)
\* get 1 unfair point and 0 fair points each.
C8_UnfairTally ==
    Shown =>
        /\ points.unfair.player1 = Wins(player1, player2) + SoloResults(player1, player2)
        /\ points.unfair.player2 = Wins(player2, player1) + SoloResults(player2, player1)
        /\ points.unfair.player1 - points.fair.player1 = SoloResults(player1, player2)
        /\ points.unfair.player2 - points.fair.player2 = SoloResults(player2, player1)
        /\ Range(points.unfair.events)
               = DOMAIN player1.personal_records \cup DOMAIN player2.personal_records
        /\ (/\ DOMAIN player1.personal_records = {"333"}
            /\ DOMAIN player2.personal_records = {"444"}
            /\ DOMAIN player1.personal_records["333"] = {"single"}
            /\ DOMAIN player2.personal_records["444"] = {"single"}
            => /\ points.unfair.player1 = 1 /\ points.unfair.player2 = 1
               /\ points.fair.player1 = 0 /\ points.fair.player2 = 0
               /\ points.fair.events = <<>>
               /\ points.unfair.events = <<"333", "444">>)

C8_Witness ==
    /\ Shown
    /\ DOMAIN player1.personal_records = {"333"}
    /\ DOMAIN player2.personal_records = {"333", "444"}
    /\ DOMAIN player2.personal_records["444"] = {"single", "average"}
    /\ points.unfair.player2 = 3 /\ points.unfair.player1 = 1

\* player p with the record of event e replaced by r
WithEvent(p, e, r) ==
    [p EXCEPT !.personal_records =
        [x \in DOMAIN p.personal_records \cup {e} |->
            IF x = e THEN r ELSE p.personal_records[x]]]

\* player p without event e
WithoutEvent(p, e) ==
    [p EXCEPT !.personal_records =
        [x \in DOMAIN p.personal_records \ {e} |-> p.personal_records[x]]]

\* C9: the fair tally only references events present in both records: its
\* events are such events, and adding, removing or changing an event only one
\* player holds changes neither the fair totals nor fair.events.
C9_FairSharedOnly ==
    Shown =>
        /\ Range(points.fair.events) = SharedEvents
        /\ points.fair.player1 + points.fair.player2 <= 2 * Cardinality(SharedEvents)
        /\ \A e \in Events \ DOMAIN player1.personal_records :
               /\ calculatePoints(player1, WithoutEvent(player2, e)).fair = points.fair
               /\ \A r \in EventRecords :
                      calculatePoints(player1, WithEvent(player2, e, r)).fair = points.fair
        /\ \A e \in Events \ DOMAIN player2.personal_records :
               /\ calculatePoints(WithoutEvent(player1, e), player2).fair = points.fair
               /\ \A r \in EventRecords :
                      calculatePoints(WithEvent(player1, e, r), player2).fair = points.fair

C9_Witness ==
    /\ Shown
    /\ SharedEvents = {"333"}
    /\ "444" \in DOMAIN player2.personal_records
    /\ points.fair.player1 = 2
    /\ points.fair.events = <<"333">>
    /\ points.unfair.player2 = 2

\* C10: a record compared against an identical copy gets equal totals on both
\* sides under both policies, every comparison being a tie.
C10_SelfComparison ==
    Shown /\ player1 = player2 =>
        /\ points.fair.player1 = points.fair.player2
        /\ points.unfair.player1 = points.unfair.player2
        /\ \A i \in 1..Len(table) : table[i].winner = "tie"

C10_Witness ==
    /\ Shown /\ player1 = player2
    /\ DOMAIN player1.personal_records = Events
    /\ \E i \in 1..Len(table) : table[i].rank1 = 2 /\ table[i].rank2 = 2
    /\ points.unfair.player1 = 0

\* C11: the comparison is symmetric: with the two records exchanged the two
\* players' totals are exchanged in both tallies and fair.events and
\* unfair.events are the same lists.
C11_Symmetric ==
    Shown =>
        LET swapped == calculatePoints(player2, player1)
        IN  /\ swapped.fair.player1 = points.fair.player2
            /\ swapped.fair.player2 = points.fair.player1
            /\ swapped.unfair.player1 = points.unfair.player2
            /\ swapped.unfair.player2 = points.unfair.player1
            /\ swapped.fair.events = points.fair.events
            /\ swapped.unfair.events = points.unfair.events

C11_Witness ==
    /\ Shown
    /\ DOMAIN player1.personal_records = {"444"}
    /\ DOMAIN player2.personal_records = {"333", "444"}
    /\ points.fair.player1 = 1 /\ points.fair.player2 = 0
    /\ points.unfair.player2 = 2
    /\ calculatePoints(player2, player1).unfair.player1 = 2
    /\ \E i \in 1..Len(table) : table[i].rank1 = 0 /\ table[i].rank2 = 0

IsAscending(seq) ==
    \A i \in 1..Len(seq) : \A j \in 1..Len(seq) :
        i < j => CodeOrder(seq[i]) < CodeOrder(seq[j])

\* C12: fair.events holds exactly the event codes both players hold and
\* unfair.events exactly those either holds, each ascending and without
\* duplicates, so fair.events is a sub-list of unfair.events.
C12_EventLists ==
    Shown =>
        /\ Range(points.fair.events) = SharedEvents
        /\ Range(points.unfair.events)
               = DOMAIN player1.personal_records \cup DOMAIN player2.personal_records
        /\ IsAscending(points.fair.events)
        /\ IsAscending(points.unfair.events)
        /\ Len(points.fair.events) = Cardinality(SharedEvents)
        /\ Len(points.unfair.events)
               = Cardinality(DOMAIN player1.personal_records
                                 \cup DOMAIN player2.personal_records)
        /\ points.fair.events
               = SelectSeq(points.unfair.events, LAMBDA e : e \in SharedEvents)

C12_Witness ==
    /\ Shown
    /\ DOMAIN player1.personal_records = {"444"}
    /\ DOMAIN player2.personal_records = {"333", "444"}
    /\ points.fair.events = <<"444">>
    /\ points.unfair.events = <<"333", "444">>

\* the comparison view is rendered (line 1135)
CompareViewShown == player1 # Null /\ player2 # Null /\ ~compareLoading

\* C13: a person file with a name but no single and no average entry is a hard
\* failure on both pages: no competitor record with empty personal_records is
\* ever stored or shown, and the query that received such a file ends with the
\* no-records error.
C13_NoRecordsFound ==
    /\ playerInfo # Null => DOMAIN playerInfo.personal_records # {}
    /\ \A p \in {player1, player2} : p # Null => DOMAIN p.personal_records # {}
    /\ CompareViewShown =>
           /\ DOMAIN player1.personal_records # {}
           /\ DOMAIN player2.personal_records # {}
    /\ (/\ pc \in {"idle", "catchDelay"}
        /\ player # Null
        /\ thrown \notin {"", "Failed to fetch", "Unexpected token"}
        /\ player.name # "" /\ player.singles = <<>> /\ player.averages = <<>>)
           => thrown = "No competition records found for this player."

\* the total the leaderboard file of a lookup reports when the lookup succeeds
NominalTotal(slot) ==
    LeaderboardTotal(SlotScope(slot, ContinentCodeOf(player), CountryIsoOf(player)),
                     SlotType(slot))

\* C14: when leaderboard-total lookups of a query failed, the query is not
\* aborted: it ends without an error, with the competitor and the standings of
\* every event stored; only the standings of the failed lookups are the zero
\* placeholder, every other one is computed from its rank and the total of its
\* leaderboard.
C14_LookupFailureDegrades ==
    (~loading /\ faults > 0) =>
        /\ thrown = ""
        /\ playerInfo # Null
        /\ eventsData # Null
        /\ DOMAIN eventsData = DOMAIN playerInfo.personal_records
        /\ Cardinality({es \in (DOMAIN eventsData) \X Slots :
                            eventTotals[es[1]][es[2]] = 0}) <= faults
        /\ \A e \in DOMAIN eventsData : \A d \in Disciplines : \A g \in Regions :
               LET slot == RegionSlot(g, d)
               IN  /\ eventTotals[e][slot] \in {0, NominalTotal(slot)}
                   /\ eventsData[e][d][g] =
                          IF eventTotals[e][slot] > 0 /\ SourceRank(e, d, g) > 0
                          THEN calculateStats(SourceRank(e, d, g), NominalTotal(slot))
                          ELSE ZeroStats

\* the errors of a failed lookup of the competitor's person file
CoreLookupErrors ==
    {"Player not found. Please check the WCA ID.",
     "Invalid player data received from API"}
    \cup {NotFoundMessage(id) : id \in {"2019WANJ01", "2012PARK03"}}
    \cup {InvalidDataMessage(id) : id \in {"2019WANJ01", "2012PARK03"}}

\* C15: a failed lookup of the person file is fatal to the query: when the
\* response is not ok or its body has no name, the query ends with a non-empty
\* error, no leaderboard lookup is issued and no competitor record is stored
\* (playerInfo, or both player1 and player2, stay null).
C15_CoreLookupFatal ==
    /\ thrown \in CoreLookupErrors =>
           /\ playerInfo = Null /\ eventsData = Null
           /\ pc \in {"idle", "catchDelay"}
           /\ eventIds = <<>> /\ eventIdx = 0 /\ responses = <<>> /\ faults = 0
           /\ ~loading => error # ""
    /\ (pc \in {"fetchTotals", "parseTotals", "delay"} \/ playerInfo # Null) =>
           player # Null /\ player.name # ""
    /\ (pc \in {"idle", "catchDelay"} /\ ~rejected /\ thrown # ""
              /\ (player = Null \/ player.name = "")) =>
           thrown \in CoreLookupErrors
    /\ compareThrown \in CoreLookupErrors =>
           /\ player1 = Null /\ player2 = Null
           /\ comparePc \in {"idle", "catchDelay"}
           /\ ~compareLoading => compareError # ""
    /\ (player1 # Null \/ player2 # Null) =>
           /\ player1 # Null /\ player2 # Null
           /\ \A i \in {1, 2} : calls[i].player # Null /\ calls[i].player.name # ""
    /\ \A i \in DOMAIN calls :
           (calls[i].pc = "thrown" /\ calls[i].player # Null /\ calls[i].player.name = "")
               => compareThrown = InvalidDataMessage(calls[i].wcaId)

C15_Witness ==
    /\ route = "/compare"
    /\ ~compareLoading
    /\ compareThrown = InvalidDataMessage("2012PARK03")
    /\ compareError = compareThrown
    /\ calls[1].pc = "returned"
    /\ calls[2].pc = "thrown"
    /\ calls[2].player # Null /\ calls[2].player.name = ""
    /\ player1 = Null /\ player2 = Null

\* the step in which fetchStats leaves its avatar lookup
AvatarSettles ==
    pc \in {"fetchAvatar", "parseAvatar"} /\ pc' \notin {"fetchAvatar", "parseAvatar"}

\* the step in which call i of fetchPlayerData leaves its avatar lookup
PlayerAvatarSettles(i) ==
    /\ comparePc = "all"
    /\ calls[i].pc \in {"fetchAvatar", "parseAvatar"}
    /\ calls'[i].pc \notin {"fetchAvatar", "parseAvatar"}

\* C16: a failed avatar lookup (rejected, not ok, a body that cannot be parsed
\* or that has no avatar URL) never fails the normalization: the step that
\* settles the lookup produces the competitor record whenever the person file
\* allows it, with the avatar absent when the lookup failed, and raises no error.
C16_AvatarFailureNotFatal ==
    [][/\ AvatarSettles =>
              IF player = Null \/ player.name = ""
              THEN thrown' = "Invalid player data received from API"
              ELSE IF player.singles = <<>> /\ player.averages = <<>>
              THEN thrown' = "No competition records found for this player."
              ELSE /\ pc' = "fetchTotals"
                   /\ thrown' = "" /\ error' = ""
                   /\ \E url \in AvatarUrls : playerInfo' = Transform(player, url)
                   /\ (pc = "fetchAvatar" \/ rejected') => playerInfo'.avatar = Null
       /\ \A i \in DOMAIN calls :
              PlayerAvatarSettles(i) =>
                  IF calls[i].player = Null \/ calls[i].player.name = ""
                  THEN compareThrown' = InvalidDataMessage(calls[i].wcaId)
                  ELSE /\ calls'[i].pc = "returned"
                       /\ compareThrown' = "" /\ compareError' = ""
                       /\ \E url \in AvatarUrls :
                              calls'[i].value = Transform(calls[i].player, url)
                       /\ calls[i].pc = "fetchAvatar" => calls'[i].value.avatar = Null
      ]_vars

C16_Witness ==
    /\ route = "/"
    /\ pc = "fetchTotals"
    /\ rejected
    /\ thrown = "" /\ error = ""
    /\ playerInfo # Null
    /\ playerInfo.avatar = Null
    /\ DOMAIN playerInfo.personal_records = {"333", "444"}

\* the event codes of a singles or averages list
EventIdsOf(list) == {list[i].eventId : i \in 1..Len(list)}

\* the entry of an event in a list that has one
EntryOf(list, e) == list[CHOOSE i \in 1..Len(list) : list[i].eventId = e]

ResultOf(entry) ==
    [best |-> entry.best,
     world_ranking |-> entry.rank.world,
     continental_ranking |-> entry.rank.continent,
     national_ranking |-> entry.rank.country]

\* the person files and the records normalized from them that the state holds
Normalized ==
    (IF playerInfo # Null THEN {<<player, playerInfo>>} ELSE {})
    \cup {<<calls[i].player, calls[i].value>> : i \in {j \in DOMAIN calls : calls[j].value # Null}}

\* C17: normalization merges the two lists: every event code present in both
\* the singles and the averages list has one personal_records entry carrying
\* both its single and its average (best, world, continental and national
\* rank), and processing the averages before the singles gives the same
\* records; the competitor records stored on the comparison page are the
\* normalized ones.
C17_MergeSinglesAverages ==
    /\ \A pair \in Normalized :
           LET raw == pair[1]
               records == pair[2].personal_records
           IN  /\ \A e \in EventIdsOf(raw.singles) \cap EventIdsOf(raw.averages) :
                      /\ e \in DOMAIN records
                      /\ DOMAIN records[e] = {"single", "average"}
                      /\ records[e].single = ResultOf(EntryOf(raw.singles, e))
                      /\ records[e].average = ResultOf(EntryOf(raw.averages, e))
               /\ records = AddRecords(AddRecords(<<>>, raw.averages, "average"),
                                       raw.singles, "single")
    /\ player1 # Null => player1 = calls[1].value
    /\ player2 # Null => player2 = calls[2].value

C17_Witness ==
    /\ route = "/"
    /\ playerInfo # Null
    /\ EventIdsOf(player.singles) = {"333", "444"}
    /\ EventIdsOf(player.averages) = {"333"}
    /\ playerInfo.personal_records["333"].single.world_ranking = 2
    /\ playerInfo.personal_records["333"].average.world_ranking = 0
    /\ DOMAIN playerInfo.personal_records["444"] = {"single"}

\* C18: every personal_records entry has at least one of single and average, and
\* an event code is a key of personal_records exactly when the person file has
\* a single or an average entry for it (each discipline present exactly when
\* its list has the event).
C18_RecordsWellFormed ==
    \A pair \in Normalized :
        LET raw == pair[1]
            records == pair[2].personal_records
        IN  /\ DOMAIN records = EventIdsOf(raw.singles) \cup EventIdsOf(raw.averages)
            /\ \A e \in DOMAIN records :
                   /\ DOMAIN records[e] # {}
                   /\ DOMAIN records[e] \subseteq {"single", "average"}
                   /\ "single" \in DOMAIN records[e] <=> e \in EventIdsOf(raw.singles)
                   /\ "average" \in DOMAIN records[e] <=> e \in EventIdsOf(raw.averages)

C18_Witness ==
    /\ route = "/compare"
    /\ player1 # Null /\ player2 # Null
    /\ calls[1].player.singles = <<>>
    /\ EventIdsOf(calls[1].player.averages) = {"444"}
    /\ DOMAIN player1.personal_records = {"444"}
    /\ DOMAIN player1.personal_records["444"] = {"average"}
    /\ DOMAIN player2.personal_records = {"333", "444"}

Rendered == statsPc = "rendered"

\* the label a row of region g shows for the zero placeholder of a person with
\* rank r whose leaderboard total is missing
PlaceholderLabel(g, r) ==
    LET standing == [nr |-> ZeroStats, cr |-> ZeroStats, wr |-> ZeroStats,
                     rank |-> [nr |-> r, cr |-> r, wr |-> r]]
    IN  CardLabels([single |-> standing, average |-> standing]).single[g]

\* C19: in every region row (NR, CR, WR) the label of a standing computed from
\* a positive rank and a positive total differs from the label the row shows
\* for the unranked placeholder.
C19_UnrankedDistinct ==
    (Rendered /\ rank > 0 /\ totalCompetitors > 0) =>
        \A d \in Disciplines : \A g \in Regions :
            \A r \in RenderRanks(0) \ {0} : labels[d][g] # PlaceholderLabel(g, r)

\* the banding of a percentile: "Top 0.1%" from 99.9, "Top 1%" from 99, the
\* one-decimal complement above 0, and "Ranked" at 0
Banding(percentile) ==
    IF NumLeq(Rat(999, 10), percentile) THEN [text |-> "Top 0.1%"]
    ELSE IF NumLeq(Num(99), percentile) THEN [text |-> "Top 1%"]
    ELSE IF NumLt(Num(0), percentile) THEN TopLabel(NumSub(Num(100), percentile))
    ELSE [text |-> "Ranked"]

\* C20: every rendered region row (NR, CR, WR; single and average) shows the
\* same banding of its percentile: "Top 0.1%" from 99.9, else "Top 1%" from 99,
\* else the one-decimal complement when the percentile is above 0, and "Ranked"
\* when it is exactly 0.
C20_SameBanding ==
    (Rendered /\ rank > 0) =>
        \A d \in Disciplines : \A g \in Regions :
            labels[d][g] = Banding(regionStats.percentile)

\* who the unfair tally gives the point of event e and discipline d to (lines
\* 999-1017): the only holder of the event for each discipline held, the
\* better rank when both hold the event and the discipline, else nobody
UnfairAward(e, d) ==
    LET r1 == player1.personal_records
        r2 == player2.personal_records
    IN  IF e \in DOMAIN r1 /\ e \notin DOMAIN r2
        THEN IF Has(r1[e], d) THEN "player1" ELSE "none"
        ELSE IF e \notin DOMAIN r1 /\ e \in DOMAIN r2
        THEN IF Has(r2[e], d) THEN "player2" ELSE "none"
        ELSE IF e \in DOMAIN r1 /\ e \in DOMAIN r2 /\ Has(r1[e], d) /\ Has(r2[e], d)
        THEN LET winner == getBetterRank(r1[e][d].world_ranking, r2[e][d].world_ranking)
             IN  IF winner = "tie" THEN "none" ELSE winner
        ELSE "none"

\* C30: the head-to-head table and the unfair tally agree: a row names a player
\* as its winner exactly when the unfair tally gives that player the point of
\* the row's event and discipline, so each unfair total is the number of rows
\* the player wins.
C30_TableMatchesUnfair ==
    Shown =>
        /\ \A i \in 1..Len(table) : \A p \in {"player1", "player2"} :
               table[i].winner = p <=> UnfairAward(table[i].eventId, table[i].discipline) = p
        /\ points.unfair.player1
               = Cardinality({i \in 1..Len(table) : table[i].winner = "player1"})
        /\ points.unfair.player2
               = Cardinality({i \in 1..Len(table) : table[i].winner = "player2"})

\* C21: the country code is the country field when present, else the
\* countryIso2 field, else the sentinel "XX"; when the sentinel is hit the page
\* is in a distinguishable unknown-region state: no code "xx" is stored, no
\* flag image of "xx" is rendered and no national leaderboard of "XX" is asked
\* for.
C21_CountryExtraction ==
    playerInfo # Null =>
        /\ player.country # "" => playerInfo.country.iso2 = ToLowerCase(player.country)
        /\ (player.country = "" /\ player.countryIso2 # "")
               => playerInfo.country.iso2 = ToLowerCase(player.countryIso2)
        /\ (player.country = "" /\ player.countryIso2 = "")
               => /\ playerInfo.country.iso2 # "xx"
                  /\ FlagSrc(playerInfo).code # "xx"
                  /\ \A i \in 1..Len(issued) : issued[i].scope # "XX"

ContinentalSlots == {"continentalSingle", "continentalAverage"}

\* C22: the continent mapping is a closed lookup over six continents; the
\* continental lookups of a competitor whose continent is missing or not one of
\* the six are sent with the literal scope "world" (those of the others with
\* the code of their continent), and the query does not fail because of it: it
\* only fails when a request fails.
C22_ContinentFallback ==
    /\ Cardinality(DOMAIN CONTINENT_CODES) = 6
    /\ \A i \in 1..Len(issued) :
           /\ issued[i].slot \in ContinentalSlots =>
                  issued[i].scope =
                      CASE player.continent = "North America" -> "north-america"
                        [] player.continent \in {"", "Atlantis"} -> "world"
           /\ issued[i].slot \in {"worldSingle", "worldAverage"} => issued[i].scope = "world"
    /\ (/\ player # Null
        /\ player.name # ""
        /\ player.continent \notin DOMAIN CONTINENT_CODES
        /\ pc \notin {"fetchAvatar", "parseAvatar"})
           => /\ playerInfo # Null
              /\ issued # <<>>
              /\ thrown # "" => rejected
              /\ (~loading /\ thrown = "") =>
                     /\ eventsData # Null
                     /\ eventTotals["333"].continentalSingle
                            \in {0, LeaderboardTotal("world", "single")}

C22_Witness ==
    /\ pc = "idle" /\ ~loading /\ error = "" /\ thrown = ""
    /\ eventsData # Null
    /\ player.continent = "Atlantis"
    /\ Len(issued) = 6
    /\ issued[3].slot = "continentalSingle" /\ issued[3].scope = "world"
    /\ eventsData["333"].single.cr = calculateStats(2, LeaderboardTotal("world", "single"))

\* C23: nothing persists between queries: whatever the page holds was produced
\* by the latest invocation of fetchStats or compareStats.  While a query runs
\* and after it ends, the competitor record, the standings and the error are
\* those of that query; after an invocation rejected for a blank identifier
\* (the message of that rejection is shown) no record and no standings of an
\* earlier query are held either.
C23_NothingPersists ==
    /\ playerInfo # Null => playerInfo = transformedPlayer
    /\ eventsData # Null => eventsData = allEventsData
    /\ loading => error = ""
    /\ error \notin {"", "Please enter a WCA ID"} => error = thrown
    /\ error = "Please enter a WCA ID" => playerInfo = Null /\ eventsData = Null
    /\ player1 # Null => player1 = calls[1].value
    /\ player2 # Null => player2 = calls[2].value
    /\ compareLoading => compareError = ""
    /\ compareError \notin {"", "Please enter both WCA IDs"} => compareError = compareThrown
    /\ compareError = "Please enter both WCA IDs" => player1 = Null /\ player2 = Null

\* C24: the leaderboard lookups of a query are sent concurrently: as soon as
\* any of them has been sent, those of every event of the competitor have been
\* sent (six per event), none waiting for the lookups of another event to
\* complete.
C24_LookupsConcurrent ==
    issued # <<>> =>
        /\ {issued[i].eventId : i \in 1..Len(issued)} = DOMAIN transformedPlayer.personal_records
        /\ Len(issued) = Len(SlotOrder) * Len(eventIds)

\* C26: when fetchStats has completed with an error of the query (not the
\* blank-identifier rejection), playerInfo and eventsData are both null: no
\* failure point leaves a record or standings stored beside the error.
C26_ErrorClearsResults ==
    (pc = "idle" /\ ~loading /\ error # "" /\ error = thrown) =>
        playerInfo = Null /\ eventsData = Null

\* C27: whenever eventsData and playerInfo are both stored, eventsData has
\* exactly the events of playerInfo.personal_records, and both were produced by
\* the same invocation of fetchStats, the latest one.
C27_SameQuery ==
    (eventsData # Null /\ playerInfo # Null) =>
        /\ DOMAIN eventsData = DOMAIN playerInfo.personal_records
        /\ playerInfo = transformedPlayer
        /\ eventsData = allEventsData

\* standings of a person with two events are stored beside their record
C27_Witness ==
    /\ eventsData # Null /\ playerInfo # Null
    /\ DOMAIN eventsData = {"333", "444"}
    /\ DOMAIN playerInfo.personal_records = {"333", "444"}

\* C25: after any compareStats has completed, player1 and player2 are either
\* both stored with an empty error or both null with a non-empty error; a
\* failure retrieving either competitor discards the other's record.
C25_AtomicCommit ==
    (comparePc = "idle" /\ ~compareLoading /\ (calls # <<>> \/ compareError # "")) =>
        \/ player1 # Null /\ player2 # Null /\ compareError = ""
        \/ player1 = Null /\ player2 = Null /\ compareError # ""

\* C28: at most one query is in flight per page: loading is true exactly while
\* the one invocation of fetchStats (compareStats) is between its start and
\* its finally block, and while it is true no invocation can begin, neither
\* one that passes the blank test nor one that fails it.
C28_OneInFlight ==
    /\ loading <=> pc # "idle"
    /\ compareLoading <=> comparePc # "idle"
    /\ loading => ~ENABLED FetchStatsBegin /\ ~ENABLED FetchStatsBlank
    /\ compareLoading => ~ENABLED CompareStatsBegin /\ ~ENABLED CompareStatsBlank

\* a comparison in flight: one retrieval has returned, the other is still
\* waiting for its person file
C28_Witness ==
    /\ compareLoading
    /\ comparePc = "all"
    /\ calls[1].pc = "returned"
    /\ calls[2].pc = "parsePlayer"

\* C29: every query that has passed the blank test and set loading
\* eventually sets loading back to false, on the success path and on every
\* failure path, when every outstanding request settles.
C29_LoadingEnds ==
    /\ loading ~> ~loading
    /\ compareLoading ~> ~compareLoading

\* a query has ended on a failure path with its error shown
C29_Witness ==
    /\ ~loading
    /\ pc = "idle"
    /\ thrown = "No competition records found for this player."
    /\ error = thrown

====
